---- MODULE Spec2Model ----
(***************************************************************************)
(* Model of src/app.py, the Wasabi single-file uploader: module import     *)
(* (configuration, client session, startup auth probe) followed by the     *)
(* Flask handler index(), served by concurrent worker threads against an   *)
(* S3-compatible store.                                                    *)
(*                                                                         *)
(* A python str is a sequence of tokens (a token is a character or a word  *)
(* that the code never splits); "x in s" is contiguous-subsequence search. *)
(* Every store call is one atomic step with a nondeterministic outcome:    *)
(* success, a botocore ClientError carrying an error response, or an       *)
(* exception that is not a ClientError (EndpointConnectionError and the    *)
(* like).  The local code between two store calls belongs to the step of   *)
(* the call that precedes it.                                              *)
(***************************************************************************)
EXTENDS Integers, Sequences, FiniteSets, TLC

VARIABLES
    environ,      \* os.environ after load_dotenv(): name -> raw value or None
    phase,        \* position of the module import / process life cycle
    WASABI,       \* WASABI_ACCESS_KEY .. WASABI_BUCKET, as one record
    _auth_ok,     \* result of the startup auth probe
    _auth_err,    \* its error text, or None
    listCalls,    \* number of s3.list_buckets() calls issued so far
    pc,           \* per worker: position inside index()
    req,          \* per worker: the request being handled
    rid,          \* per worker: serial number of that request
    key,          \* per worker: the local variable key of index()
    calls,        \* per worker: store operations issued for the request
    resp,         \* per worker: the response of the request
    nreq,         \* requests received so far
    uuids,        \* uuid.uuid4() values handed out so far
    objects,      \* the bucket's content
    now           \* the clock, in seconds

vars == <<environ, phase, WASABI, _auth_ok, _auth_err, listCalls, pc, req,
          rid, key, calls, resp, nreq, uuids, objects, now>>

-----------------------------------------------------------------------------
\* Bounds of the model.
MaxRequests == 2    \* requests received in one run
MaxUuids == 4       \* uuid4() values drawn in one run
MaxTicks == 1       \* clock ticks in one run
TickSeconds == 1800 \* seconds per clock tick

Workers == {"w1", "w2"}

-----------------------------------------------------------------------------
\* Python values.
None == <<"<None>">>
Str(v) == IF v = None THEN <<"None">> ELSE v
Repr(v) == IF v = None THEN <<"None">> ELSE <<"'">> \o v \o <<"'">>

\* t in s
Contains(s, t) ==
    \E i \in 1..(Len(s) - Len(t) + 1) : SubSeq(s, i, i + Len(t) - 1) = t

RECURSIVE LStrip(_, _)
LStrip(s, chars) ==
    IF s # <<>> /\ Head(s) \in chars THEN LStrip(Tail(s), chars) ELSE s

RECURSIVE RStrip(_, _)
RStrip(s, chars) ==
    IF s # <<>> /\ s[Len(s)] \in chars
    THEN RStrip(SubSeq(s, 1, Len(s) - 1), chars) ELSE s

\* str.strip(chars)
Strip(s, chars) == RStrip(LStrip(s, chars), chars)

Whitespace == {" "}

-----------------------------------------------------------------------------
\* Configuration (src/app.py:17-40).
EnvNames == {"WASABI_ACCESS_KEY", "WASABI_SECRET_KEY", "WASABI_REGION",
             "WASABI_ENDPOINT", "WASABI_BUCKET"}

EnvValue(n) ==
    CASE n = "WASABI_ACCESS_KEY" -> "AKIDEXAMPLE0"
      [] n = "WASABI_SECRET_KEY" -> "secret"
      [] n = "WASABI_REGION"     -> "eu-central-1"
      [] n = "WASABI_ENDPOINT"   -> "https://s3.eu-central-1.wasabisys.com"
      [] n = "WASABI_BUCKET"     -> "my-bucket"

\* What the environment may hold for a name: unset, blank, or a padded value.
EnvKinds == {"unset", "blank", "set"}
EnvRaw(n, kind) ==
    CASE kind = "unset" -> None
      [] kind = "blank" -> <<" ", " ">>
      [] kind = "set"   -> <<" ", EnvValue(n), " ">>

_env(name) ==
    LET v == environ[name] IN
    IF v = None THEN None
    ELSE IF Strip(v, Whitespace) # <<>> THEN Strip(v, Whitespace) ELSE None

WASABI_BUCKET == WASABI["WASABI_BUCKET"]
WASABI_REGION == WASABI["WASABI_REGION"]
WASABI_ENDPOINT == WASABI["WASABI_ENDPOINT"]

\* The values session / client construction and the debug prints dereference
\* (.strip() and len()).
Dereferenced == {"WASABI_ACCESS_KEY", "WASABI_SECRET_KEY", "WASABI_REGION",
                 "WASABI_ENDPOINT"}

-----------------------------------------------------------------------------
\* Outcomes of a store call.
Ok == [kind |-> "ok", Code |-> <<>>, Message |-> <<>>]
ClientError(c, m) == [kind |-> "ClientError", Code |-> c, Message |-> m]
\* An exception that is not a ClientError: the store was not reached.
EndpointConnectionError ==
    [kind |-> "EndpointConnectionError", Code |-> <<>>, Message |-> <<>>]
\* Raised by the client before sending, when Bucket is None.
ParamValidationError ==
    [kind |-> "ParamValidationError", Code |-> <<>>, Message |-> <<>>]

ListBucketsErrors ==
    { ClientError(<<"InvalidAccessKeyId">>, <<"The access key does not exist">>),
      ClientError(<<"SignatureDoesNotMatch">>, <<"Signature mismatch">>) }

HeadBucketErrors ==
    { ClientError(<<"404">>, <<"Not Found">>),
      ClientError(<<"NoSuchBucket">>, <<"The specified bucket does not exist">>),
      ClientError(<<"403">>, <<"Forbidden">>),
      ClientError(<<"AccessDenied">>, <<"Access Denied">>),
      ClientError(<<"AccessDenied">>, <<"Access Denied, request id ", "404", "F1">>),
      ClientError(<<"301">>, <<"Moved Permanently">>),
      ClientError(<<"AuthorizationHeaderMalformed">>,
                  <<"the region is wrong; status ", "403">>),
      ClientError(<<"400">>, <<"Bad Request">>) }

PutObjectErrors ==
    { ClientError(<<"AccessDenied">>, <<"Access Denied">>),
      ClientError(<<"InternalError">>, <<"We encountered an internal error">>) }

Outcomes(errors) == {Ok, EndpointConnectionError} \cup errors

HeadBucketOutcomes ==
    IF WASABI_BUCKET = None THEN {ParamValidationError}
    ELSE Outcomes(HeadBucketErrors)

PutObjectOutcomes ==
    IF WASABI_BUCKET = None THEN {ParamValidationError}
    ELSE Outcomes(PutObjectErrors)

_err_text(e) == e.Code \o <<": ">> \o e.Message


-----------------------------------------------------------------------------
\* preflight_bucket (src/app.py:81-96), given the outcome of head_bucket (Ok
\* or a ClientError): None or the message returned.
NotFoundMessage ==
    <<"Bucket not found. Check spelling and region. ", "(bucket=">>
        \o Repr(WASABI_BUCKET) \o <<", region=">> \o Str(WASABI_REGION)
        \o <<", endpoint=">> \o Str(WASABI_ENDPOINT) \o <<")">>

AccessDeniedMessage ==
    <<"Access denied to bucket. Keys must belong to same Wasabi account and have s3:ListBucket & s3:PutObject.">>

RegionMismatchMessage ==
    <<"Region mismatch. Set WASABI_REGION to the bucket's region and use endpoint https://s3.<region>.wasabisys.com">>

preflight_bucket_raw(outcome) ==
    IF outcome.kind = "ok" THEN None ELSE _err_text(outcome)

preflight_bucket(outcome) ==
    IF outcome.kind = "ok" THEN None
    ELSE LET err == _err_text(outcome) IN
         IF Contains(err, <<"NoSuchBucket">>) \/ Contains(err, <<"404">>)
         THEN NotFoundMessage
         ELSE IF Contains(err, <<"AccessDenied">>) \/ Contains(err, <<"403">>)
         THEN AccessDeniedMessage
         ELSE IF Contains(err, <<"AuthorizationHeaderMalformed">>)
                 \/ Contains(err, <<"301">>)
         THEN RegionMismatchMessage
         ELSE err

-----------------------------------------------------------------------------
\* werkzeug.utils.secure_filename as index() calls it (src/app.py:310), on a
\* POSIX host: path separators become spaces, whitespace-separated words are
\* joined with "_", characters outside [A-Za-z0-9_.-] are dropped, and
\* leading and trailing "." and "_" are stripped.
SafeChars == {"a", "b", "c", "d", "e", "p", "s", "t", "w", "_", ".", "-"}

RECURSIVE Replace(_, _, _)
Replace(s, old, new) ==
    IF s = <<>> THEN <<>>
    ELSE <<IF Head(s) = old THEN new ELSE Head(s)>> \o Replace(Tail(s), old, new)

\* Length of the longest prefix of s without whitespace.
RECURSIVE WordLen(_)
WordLen(s) ==
    IF s = <<>> \/ Head(s) \in Whitespace THEN 0 ELSE 1 + WordLen(Tail(s))

\* str.split()
RECURSIVE Split(_)
Split(s) ==
    LET t == LStrip(s, Whitespace) IN
    IF t = <<>> THEN <<>>
    ELSE <<SubSeq(t, 1, WordLen(t))>> \o Split(SubSeq(t, WordLen(t) + 1, Len(t)))

\* sep.join(words)
RECURSIVE Join(_, _)
Join(sep, words) ==
    IF words = <<>> THEN <<>>
    ELSE IF Len(words) = 1 THEN Head(words)
    ELSE Head(words) \o sep \o Join(sep, Tail(words))

RECURSIVE AsciiStrip(_)
AsciiStrip(s) ==
    IF s = <<>> THEN <<>>
    ELSE (IF Head(s) \in SafeChars THEN <<Head(s)>> ELSE <<>>) \o AsciiStrip(Tail(s))

secure_filename_keep_dots(filename) ==
    AsciiStrip(Join(<<"_">>, Split(Replace(filename, "/", " "))))

secure_filename(filename) ==
    Strip(AsciiStrip(Join(<<"_">>, Split(Replace(filename, "/", " ")))),
          {".", "_"})

-----------------------------------------------------------------------------
\* Requests.  A file part is werkzeug's FileStorage: filename, the declared
\* Content-Type header (empty when none was sent) and the payload.
NoFile == [filename |-> None, content_type |-> <<>>, data |-> <<>>]

Files ==
    { [filename |-> <<"a", ".", "t">>,
       content_type |-> <<"Text/Plain", ";", " charset=utf-8">>,
       data |-> <<"b1">>],
      [filename |-> <<".", ".", "/", ".", ".", "/", "e", "t", "c", "/",
                      "p", "a", "s", "s", "w", "d">>,
       content_type |-> <<>>,
       data |-> <<"b1">>],
      [filename |-> <<".", ".", "/", ".", ".">>,
       content_type |-> <<"text/plain">>,
       data |-> <<"b2">>],
      [filename |-> <<>>,
       content_type |-> <<"application/octet-stream">>,
       data |-> <<>>] }

Requests ==
    {[method |-> "GET", file |-> NoFile]}
        \cup {[method |-> "POST", file |-> f] : f \in Files \cup {NoFile}}

\* FileStorage.__bool__: a part without a filename is falsy.
Truthy(f) == f # NoFile /\ f.filename # <<>>

\* str.lower() on the media types the requests declare.
Lower(t) == IF t = "Text/Plain" THEN "text/plain" ELSE t

\* Length of the longest prefix of s without ";".
RECURSIVE TypeLen(_)
TypeLen(s) == IF s = <<>> \/ Head(s) = ";" THEN 0 ELSE 1 + TypeLen(Tail(s))

\* FileStorage.mimetype: the content type without parameters, lowercased.
mimetype(f) ==
    LET t == SubSeq(f.content_type, 1, TypeLen(f.content_type)) IN
    [i \in 1..Len(t) |-> Lower(t[i])]

\* The ContentType argument of the real put_object (src/app.py:322).
ContentType_declared(f) ==
    IF f.content_type # <<>> THEN f.content_type ELSE <<"application/octet-stream">>

ContentType(f) ==
    IF mimetype(f) # <<>> THEN mimetype(f) ELSE <<"application/octet-stream">>

\* uuid.uuid4(): the n-th value drawn; no two draws return the same value.
uuid4(n) == ToString(n)

\* The keys (src/app.py:100 and 314).
DiagKey_fixed(id) == <<"diag/", "probe", ".txt">>
DiagKey(id) == <<"diag/", id, ".txt">>
UploadKey_no_uuid(id, fname) == <<"uploads/">> \o fname
UploadKey(id, fname) == <<"uploads/", id, "_">> \o fname

-----------------------------------------------------------------------------
\* The store.  An object is its key, body and content type; rid names the
\* request whose put_object wrote it.
put_object(objs, k, body, ctype, r) ==
    {o \in objs : o.key # k}
        \cup {[key |-> k, body |-> body, ctype |-> ctype, rid |-> r]}

ExpiresIn == 3600

NoUrl == [bucket |-> <<>>, key |-> <<>>, signedAt |-> 0, expiresIn |-> 0]

\* s3.generate_presigned_url("get_object", ...): computed locally from the
\* credentials, no request is sent.
generate_presigned_url(k) ==
    [bucket |-> WASABI_BUCKET, key |-> k, signedAt |-> now, expiresIn |-> ExpiresIn]

\* The store's answer to a GET of a presigned URL at time t.
Rejected == [status |-> "403", body |-> <<>>, ctype |-> <<>>]
NotFound == [status |-> "404", body |-> <<>>, ctype |-> <<>>]
Fetch(u, t) ==
    IF t > u.signedAt + u.expiresIn THEN Rejected
    ELSE IF \E o \in objects : o.key = u.key
    THEN LET o == CHOOSE x \in objects : x.key = u.key IN
         [status |-> "200", body |-> o.body, ctype |-> o.ctype]
    ELSE NotFound

-----------------------------------------------------------------------------
\* Responses of index().
NoResponse == [status |-> "none", url |-> NoUrl, error |-> None, startup_error |-> None]
Render(u, e, s) == [status |-> "200", url |-> u, error |-> e, startup_error |-> s]
\* An exception leaves index(): Flask answers 500 and nothing is rendered.
Unhandled == [status |-> "500", url |-> NoUrl, error |-> None, startup_error |-> None]

\* One entry of calls: the operation and what the client returned or raised.
Call(op, outcome) == [op |-> op, outcome |-> outcome]
Succeeded(c) == c.outcome.kind = "ok"


-----------------------------------------------------------------------------
Init ==
    /\ \E k \in [EnvNames -> EnvKinds] :
           environ = [n \in EnvNames |-> EnvRaw(n, k[n])]
    /\ phase = "import"
    /\ WASABI = [n \in EnvNames |-> None]
    /\ _auth_ok = FALSE
    /\ _auth_err = None
    /\ listCalls = 0
    /\ pc = [w \in Workers |-> "idle"]
    /\ req = [w \in Workers |-> [method |-> "GET", file |-> NoFile]]
    /\ rid = [w \in Workers |-> 0]
    /\ key = [w \in Workers |-> <<>>]
    /\ calls = [w \in Workers |-> <<>>]
    /\ resp = [w \in Workers |-> NoResponse]
    /\ nreq = 0
    /\ uuids = 0
    /\ objects = {}
    /\ now = 0

requestVars == <<pc, req, rid, key, calls, resp, nreq, uuids, objects>>

\* src/app.py:27-31: the five module constants are read with _env.
LoadConfig ==
    /\ phase = "import"
    /\ WASABI' = [n \in EnvNames |-> _env(n)]
    /\ phase' = "configured"
    /\ UNCHANGED <<environ, _auth_ok, _auth_err, listCalls, requestVars, now>>

\* src/app.py:46-61: session and client construction and the debug prints
\* call .strip() and len() on the values; on None that raises and the import
\* (the process) ends.
BuildSession ==
    /\ phase = "configured"
    /\ phase' = IF \E n \in Dereferenced : WASABI[n] = None
                THEN "crashed" ELSE "client"
    /\ UNCHANGED <<environ, WASABI, _auth_ok, _auth_err, listCalls, requestVars, now>>

\* auth_ok (src/app.py:71-79), given the outcome of list_buckets (Ok or a
\* ClientError): the pair (ok, detail).
auth_ok(outcome) ==
    IF outcome.kind = "ok" THEN <<TRUE, None>>
    ELSE <<FALSE, _err_text(outcome)>>

\* src/app.py:111: _auth_ok, _auth_err = auth_ok().  Only ClientError is
\* caught; any other exception ends the import.
StartupAuth ==
    /\ phase = "client"
    /\ listCalls' = listCalls + 1
    /\ \E outcome \in Outcomes(ListBucketsErrors) :
           IF outcome.kind \in {"ok", "ClientError"}
           THEN /\ _auth_ok' = auth_ok(outcome)[1]
                /\ _auth_err' = auth_ok(outcome)[2]
                /\ phase' = "serving"
           ELSE /\ phase' = "crashed"
                /\ UNCHANGED <<_auth_ok, _auth_err>>
    /\ UNCHANGED <<environ, WASABI, requestVars, now>>

bootVars == <<environ, phase, WASABI, _auth_ok, _auth_err, listCalls>>

\* index(), src/app.py:279-288 and 332-340: what is rendered before any store
\* call, or NoResponse when the request goes on to the bucket check.
startup_gate_get_only(r) ==
    IF r.method = "POST" THEN NoResponse
    ELSE IF ~_auth_ok THEN Render(NoUrl, None, _auth_err)
    ELSE Render(NoUrl, None, None)

startup_gate(r) ==
    IF ~_auth_ok THEN Render(NoUrl, None, _auth_err)
    ELSE IF r.method = "POST" THEN NoResponse
    ELSE Render(NoUrl, None, None)

\* index(), src/app.py:291 and 299: "if pre:" / "if d:", the early return
\* on a failed step.
returns_early_never(e) == FALSE

returns_early(e) == e # None

\* index(), src/app.py:277-288 and 332-340: a request arrives; the startup
\* gate and the method test run before any store call.
Begin(w) ==
    /\ phase = "serving"
    /\ pc[w] \in {"idle", "done"}
    /\ nreq < MaxRequests
    /\ \E r \in Requests :
        /\ req' = [req EXCEPT ![w] = r]
        /\ resp' = [resp EXCEPT ![w] = startup_gate(r)]
        /\ pc' = [pc EXCEPT ![w] =
               IF startup_gate(r) = NoResponse THEN "head_bucket" ELSE "done"]
    /\ nreq' = nreq + 1
    /\ rid' = [rid EXCEPT ![w] = nreq + 1]
    /\ key' = [key EXCEPT ![w] = <<>>]
    /\ calls' = [calls EXCEPT ![w] = <<>>]
    /\ UNCHANGED <<bootVars, uuids, objects, now>>

\* index(), src/app.py:290-295: pre = preflight_bucket().
HeadBucket(w) ==
    /\ pc[w] = "head_bucket"
    /\ \E outcome \in HeadBucketOutcomes :
        /\ calls' = [calls EXCEPT ![w] = Append(@, Call("head_bucket", outcome))]
        /\ IF outcome.kind \notin {"ok", "ClientError"}
           THEN /\ pc' = [pc EXCEPT ![w] = "done"]
                /\ resp' = [resp EXCEPT ![w] = Unhandled]
           ELSE LET pre == preflight_bucket(outcome) IN
                IF returns_early(pre)
                THEN /\ pc' = [pc EXCEPT ![w] = "done"]
                     /\ resp' = [resp EXCEPT ![w] =
                            Render(NoUrl, <<"Bucket check failed: ">> \o pre, None)]
                ELSE /\ pc' = [pc EXCEPT ![w] = "diag_put"]
                     /\ UNCHANGED resp
    /\ UNCHANGED <<bootVars, req, rid, key, nreq, uuids, objects, now>>

\* diag_put (src/app.py:99-108), given the outcome of its put_object (Ok or
\* a ClientError): None or the error text.
diag_put(outcome) ==
    IF outcome.kind = "ok" THEN None ELSE _err_text(outcome)

\* index(), src/app.py:298-314: d = diag_put(); then the file part is
\* looked at and the upload key is made.
DiagPut(w) ==
    /\ pc[w] = "diag_put"
    /\ uuids < MaxUuids
    /\ \E outcome \in PutObjectOutcomes :
        LET test_key == DiagKey(uuid4(uuids + 1))
            f == req[w].file
            fname == secure_filename(f.filename)
            raised == outcome.kind \notin {"ok", "ClientError"}
            d == IF raised THEN None ELSE diag_put(outcome)
            validate == ~raised /\ ~returns_early(d)
            upload == validate /\ Truthy(f) /\ fname # <<>>
        IN
        /\ upload => uuids + 1 < MaxUuids
        /\ calls' = [calls EXCEPT ![w] = Append(@, Call("diag_put", outcome))]
        /\ uuids' = IF upload THEN uuids + 2 ELSE uuids + 1
        /\ objects' = IF outcome.kind = "ok"
                      THEN put_object(objects, test_key, <<"diag">>,
                                      <<"text/plain">>, rid[w])
                      ELSE objects
        /\ key' = [key EXCEPT ![w] =
                      IF upload THEN UploadKey(uuid4(uuids + 2), fname) ELSE <<>>]
        /\ pc' = [pc EXCEPT ![w] = IF upload THEN "put_object" ELSE "done"]
        /\ resp' = [resp EXCEPT ![w] =
               CASE raised -> Unhandled
                 [] ~raised /\ returns_early(d) ->
                        Render(NoUrl, <<"Diagnostic PutObject failed: ">> \o d, None)
                 [] validate /\ ~Truthy(f) ->
                        Render(NoUrl, <<"No file selected.">>, None)
                 [] validate /\ Truthy(f) /\ fname = <<>> ->
                        Render(NoUrl, <<"Invalid filename.">>, None)
                 [] upload -> NoResponse]
    /\ UNCHANGED <<bootVars, req, rid, nreq, now>>

\* index(), src/app.py:315-340: the real put_object, the presigned URL and
\* the final render.
PutObject(w) ==
    /\ pc[w] = "put_object"
    /\ \E outcome \in PutObjectOutcomes :
        LET f == req[w].file
            data == f.data
        IN
        /\ calls' = [calls EXCEPT ![w] =
               IF outcome.kind = "ok"
               THEN Append(Append(@, Call("put_object", outcome)),
                           Call("generate_presigned_url", Ok))
               ELSE Append(@, Call("put_object", outcome))]
        /\ objects' = IF outcome.kind = "ok"
                      THEN put_object(objects, key[w], data, ContentType(f), rid[w])
                      ELSE objects
        /\ resp' = [resp EXCEPT ![w] =
               CASE outcome.kind = "ok" ->
                        Render(generate_presigned_url(key[w]), None, None)
                 [] outcome.kind = "ClientError" ->
                        Render(NoUrl, _err_text(outcome), None)
                 [] OTHER -> Unhandled]
        /\ pc' = [pc EXCEPT ![w] = "done"]
    /\ UNCHANGED <<bootVars, req, rid, key, nreq, uuids, now>>

\* Time passes.
Tick ==
    /\ now < MaxTicks * TickSeconds
    /\ now' = now + TickSeconds
    /\ UNCHANGED <<bootVars, requestVars>>

Next ==
    \/ LoadConfig
    \/ BuildSession
    \/ StartupAuth
    \/ \E w \in Workers : Begin(w)
    \/ \E w \in Workers : HeadBucket(w)
    \/ \E w \in Workers : DiagPut(w)
    \/ \E w \in Workers : PutObject(w)
    \/ Tick

Spec == Init /\ [][Next]_vars


-----------------------------------------------------------------------------
\* Vocabulary of the properties.
TraversalName == <<".", ".", "/", ".", ".", "/", "e", "t", "c", "/",
                   "p", "a", "s", "s", "w", "d">>
DotDotName == <<".", ".", "/", ".", ".">>
EtcPasswd == <<"e", "t", "c", "_", "p", "a", "s", "s", "w", "d">>
NoFileSelected == <<"No file selected.">>
InvalidFilename == <<"Invalid filename.">>
LocalMessages == {NoFileSelected, InvalidFilename}
UuidValues == {ToString(n) : n \in 1..(MaxUuids + 1)}

IsPost(w) == rid[w] > 0 /\ req[w].method = "POST"
IsGet(w) == rid[w] > 0 /\ req[w].method = "GET"
Issued(w, op) == \E i \in 1..Len(calls[w]) : calls[w][i].op = op
IssuedOk(w, op) ==
    \E i \in 1..Len(calls[w]) : calls[w][i].op = op /\ Succeeded(calls[w][i])
Times(w, op) == Cardinality({i \in 1..Len(calls[w]) : calls[w][i].op = op})
WrittenBy(w, prefix) == {o \in objects : o.rid = rid[w] /\ o.key[1] = prefix}
HasUrl(w) == resp[w].url # NoUrl
HeadFailedWith(w, codes) ==
    /\ calls[w] # <<>>
    /\ calls[w][1].op = "head_bucket"
    /\ calls[w][1].outcome.kind = "ClientError"
    /\ calls[w][1].outcome.Code \in codes

\* C1 as stated: with startup auth ok, a POST without a file, or with a file
\* whose name is empty or is ../../etc/passwd, is answered with a local error
\* message and no store call at all was issued for it.
C1_RejectedBeforeAnyStoreCall ==
    \A w \in Workers :
        ( /\ _auth_ok /\ IsPost(w) /\ pc[w] = "done"
          /\ \/ req[w].file = NoFile
             \/ req[w].file.filename \in {<<>>, TraversalName} )
        => /\ calls[w] = <<>>
           /\ resp[w].error \in LocalMessages

\* C1 amended: with startup auth ok, a POST without a file or with a file
\* whose name is empty or sanitizes to empty (../..) never issues the real
\* put_object or the presign and writes no upload; once head_bucket and the
\* diagnostic put_object succeeded it is answered with the local message, and
\* the local message is only ever given after those two calls.  The name
\* ../../etc/passwd is not rejected: it is sanitized to etc_passwd and
\* uploaded under uploads/<uuid>_etc_passwd.
C1_RejectedAfterPreflight ==
    \A w \in Workers :
        (_auth_ok /\ IsPost(w)) =>
            LET f == req[w].file
                missing == f = NoFile \/ f.filename = <<>>
                empty == f # NoFile /\ f.filename = DotDotName
                preflightOk == /\ pc[w] = "done" /\ Len(calls[w]) = 2
                               /\ Succeeded(calls[w][1]) /\ Succeeded(calls[w][2])
            IN
            /\ (missing \/ empty) =>
                  /\ ~Issued(w, "put_object")
                  /\ ~Issued(w, "generate_presigned_url")
                  /\ pc[w] # "put_object"
                  /\ key[w] = <<>>
                  /\ ~HasUrl(w)
                  /\ WrittenBy(w, "uploads/") = {}
                  /\ preflightOk =>
                        resp[w] = Render(NoUrl,
                                         IF missing THEN NoFileSelected
                                         ELSE InvalidFilename, None)
            /\ resp[w].error \in LocalMessages =>
                  /\ (missing \/ empty)
                  /\ IssuedOk(w, "head_bucket") /\ IssuedOk(w, "diag_put")
            /\ (f # NoFile /\ f.filename = TraversalName) =>
                  /\ secure_filename(f.filename) = EtcPasswd
                  /\ preflightOk => FALSE
                  /\ pc[w] = "put_object" =>
                        \E id \in UuidValues :
                            key[w] = <<"uploads/", id, "_">> \o EtcPasswd

C1_Witness ==
    \E w \in Workers :
        /\ _auth_ok /\ IsPost(w) /\ pc[w] = "done"
        /\ req[w].file.filename = DotDotName
        /\ resp[w].error = InvalidFilename
        /\ Len(calls[w]) = 2

\* C2 as stated: whichever required values are absent or blank at boot, the
\* import is not aborted by the missing value, and the serving state is
\* entered with the startup auth result recorded as failed.
C2_StartsWithMissingConfig ==
    (\E n \in EnvNames : environ[n] = None \/ Strip(environ[n], Whitespace) = <<>>)
        => /\ ~(phase = "crashed" /\ listCalls = 0)
           /\ phase = "serving" => ~_auth_ok

\* C3: list_buckets is called exactly once, at boot; the cached result never
\* changes while serving; and while it is false every request, GET or POST,
\* is answered with the startup error, no url and no error, and no store call.
C3_StartupAuthGate ==
    /\ [](/\ listCalls <= 1
          /\ phase = "serving" => listCalls = 1
          /\ (phase = "serving" /\ ~_auth_ok) =>
                /\ _auth_err # None
                /\ objects = {}
                /\ \A w \in Workers :
                      /\ calls[w] = <<>>
                      /\ pc[w] \in {"idle", "done"}
                      /\ rid[w] > 0 => resp[w] = Render(NoUrl, None, _auth_err))
    /\ [][phase = "serving" =>
             /\ phase' = "serving"
             /\ _auth_ok' = _auth_ok
             /\ _auth_err' = _auth_err
             /\ listCalls' = listCalls]_vars

C3_Witness ==
    /\ phase = "serving" /\ ~_auth_ok
    /\ \E w, v \in Workers : IsPost(w) /\ IsGet(v) /\ pc[w] = "done" /\ pc[v] = "done"

\* C4: when head_bucket reports NoSuchBucket or 404, the response carries an
\* error message containing the configured bucket name and region, and
\* neither put_object is issued for that request.
C4_BucketNotFound ==
    \A w \in Workers :
        HeadFailedWith(w, {<<"NoSuchBucket">>, <<"404">>}) =>
            /\ Len(calls[w]) = 1
            /\ pc[w] = "done"
            /\ resp[w].status = "200"
            /\ resp[w].error # None
            /\ Contains(resp[w].error, WASABI_BUCKET)
            /\ Contains(resp[w].error, WASABI_REGION)
            /\ ~HasUrl(w)
            /\ WrittenBy(w, "diag/") = {} /\ WrittenBy(w, "uploads/") = {}

C4_Witness ==
    \E w \in Workers :
        /\ HeadFailedWith(w, {<<"NoSuchBucket">>})
        /\ WASABI_BUCKET = <<"my-bucket">>
        /\ pc[w] = "done"

\* C5 as stated: a store call that fails, by an error response or by not
\* reaching the store, never ends the process and never leaves a request
\* without a rendered message; and no operation is issued twice in a request.
C5_EveryFailureRendered ==
    /\ phase = "crashed" => listCalls = 0
    /\ \A w \in Workers :
          /\ (calls[w] # <<>> /\ ~Succeeded(calls[w][Len(calls[w])])
              /\ WASABI_BUCKET # None) =>
                 /\ resp[w].status = "200"
                 /\ resp[w].error # None
          /\ \A op \in {"head_bucket", "diag_put", "put_object",
                        "generate_presigned_url"} : Times(w, op) <= 1

\* C6: every real put_object uses a key uploads/<uuid>_<sanitized name> that
\* no stored object and no other request in flight has, also when the names
\* are the same; the object a returned URL names was written by the URL's own
\* request; and no step removes or replaces a stored object.
C6_UniqueKeys ==
    /\ [](\A w \in Workers :
            /\ pc[w] = "put_object" =>
                  /\ \E id \in UuidValues :
                        key[w] = <<"uploads/", id, "_">>
                                     \o secure_filename(req[w].file.filename)
                  /\ \A o \in objects : o.key # key[w]
                  /\ \A v \in Workers \ {w} : key[v] # key[w]
            /\ HasUrl(w) =>
                  /\ resp[w].url.key = key[w]
                  /\ \E o \in objects :
                        /\ o.key = key[w] /\ o.rid = rid[w]
                        /\ o.body = req[w].file.data
                  /\ \A v \in Workers \ {w} : key[v] # key[w])
    /\ [][\A o \in objects : o \in objects']_vars

C6_Witness ==
    \E w, v \in Workers :
        /\ w # v /\ HasUrl(w) /\ HasUrl(v)
        /\ req[w].file.filename = req[v].file.filename
        /\ Cardinality({o \in objects : o.key[1] = "uploads/"}) = 2

\* C7 as stated: a head_bucket error response is reported with the message
\* of the class its error code belongs to, whatever its message text:
\* AccessDenied / 403 with the access-denied guidance, NoSuchBucket / 404 with
\* the not-found message, AuthorizationHeaderMalformed / 301 with the
\* region-mismatch message; and the three messages differ.
C7_ClassifiedByCode ==
    /\ Cardinality({NotFoundMessage, AccessDeniedMessage, RegionMismatchMessage}) = 3
    /\ \A w \in Workers :
          /\ HeadFailedWith(w, {<<"AccessDenied">>, <<"403">>}) =>
                resp[w].error = <<"Bucket check failed: ">> \o AccessDeniedMessage
          /\ HeadFailedWith(w, {<<"NoSuchBucket">>, <<"404">>}) =>
                resp[w].error = <<"Bucket check failed: ">> \o NotFoundMessage
          /\ HeadFailedWith(w, {<<"AuthorizationHeaderMalformed">>, <<"301">>}) =>
                resp[w].error = <<"Bucket check failed: ">> \o RegionMismatchMessage

\* The content type a request declares for its file, with the default.
DeclaredType(f) ==
    IF f.content_type = <<>> THEN <<"application/octet-stream">> ELSE f.content_type

\* The declared media type, lowercased and without parameters, with the
\* default.
MediaType(f) ==
    CASE f.content_type = <<>> -> <<"application/octet-stream">>
      [] f.content_type = <<"Text/Plain", ";", " charset=utf-8">> -> <<"text/plain">>
      [] OTHER -> f.content_type

UrlServes(w, ctype) ==
    LET u == resp[w].url
        content == [status |-> "200", body |-> req[w].file.data, ctype |-> ctype]
    IN
    /\ u.expiresIn = 3600
    /\ u.signedAt <= now
    /\ \A t \in {u.signedAt, now, u.signedAt + 3600} :
          t <= u.signedAt + 3600 => Fetch(u, t) = content
    /\ Fetch(u, u.signedAt + 3601) = Rejected

Pipeline == <<"head_bucket", "diag_put", "put_object", "generate_presigned_url">>

C9_PipelineOrder ==
    \A w \in Workers :
        /\ Len(calls[w]) <= 4
        /\ \A i \in 1..Len(calls[w]) :
              /\ calls[w][i].op = Pipeline[i]
              /\ i < Len(calls[w]) => Succeeded(calls[w][i])
        /\ (_auth_ok /\ IsPost(w)) =>
              /\ pc[w] = "head_bucket" <=> calls[w] = <<>>
              /\ pc[w] = "diag_put" <=> (Len(calls[w]) = 1 /\ Succeeded(calls[w][1]))
              /\ pc[w] = "put_object" => (Len(calls[w]) = 2 /\ Succeeded(calls[w][2]))
        /\ (calls[w] # <<>> /\ ~Succeeded(calls[w][Len(calls[w])])) =>
              /\ pc[w] = "done"
              /\ ~HasUrl(w)
              /\ resp[w].status = "500" \/ resp[w].error # None
        /\ pc[w] = "done" => (HasUrl(w) <=> IssuedOk(w, "put_object"))
        /\ pc[w] # "done" => ~HasUrl(w)
        /\ ~(HasUrl(w) /\ resp[w].error # None)

C9_Witness ==
    \E w, v \in Workers :
        /\ w # v /\ rid[w] < rid[v]
        /\ pc[w] = "done" /\ Len(calls[w]) = 4 /\ HasUrl(w)
        /\ pc[v] = "done" /\ Len(calls[v]) = 3 /\ ~Succeeded(calls[v][3])
        /\ resp[v].error # None

\* C10 as stated: a POST that passed the auth gate and the bucket check has,
\* when it ends, written exactly one diag/ object; diag/ objects are never
\* removed or replaced; a GET writes nothing.
C10_OneDiagObjectPerPost ==
    /\ [](\A w \in Workers :
            /\ (pc[w] = "done" /\ IssuedOk(w, "head_bucket")) =>
                  Cardinality(WrittenBy(w, "diag/")) = 1
            /\ IsGet(w) => (calls[w] = <<>> /\ {o \in objects : o.rid = rid[w]} = {}))
    /\ [][\A o \in objects : o.key[1] = "diag/" => o \in objects']_vars

\* C10 amended: such a POST issues exactly one diagnostic put_object, under
\* a key no object has; it leaves exactly one new diag/ object when the store
\* accepts that put and none when the put fails; diag/ objects are never
\* removed or replaced; a GET writes nothing.
C10_OneDiagPutPerPost ==
    /\ [](\A w \in Workers :
            /\ (pc[w] = "done" /\ IssuedOk(w, "head_bucket")) =>
                  /\ Times(w, "diag_put") = 1
                  /\ Cardinality(WrittenBy(w, "diag/")) =
                        (IF IssuedOk(w, "diag_put") THEN 1 ELSE 0)
            /\ pc[w] \in {"head_bucket", "diag_put"} => WrittenBy(w, "diag/") = {}
            /\ IsGet(w) => (calls[w] = <<>> /\ {o \in objects : o.rid = rid[w]} = {}))
    /\ [][\A o \in objects : o.key[1] = "diag/" => o \in objects']_vars

C10_Witness ==
    \E w, v \in Workers :
        /\ w # v
        /\ pc[w] = "done" /\ Len(calls[w]) = 2 /\ req[w].file = NoFile
        /\ pc[v] = "done" /\ HasUrl(v)
        /\ Cardinality({o \in objects : o.key[1] = "diag/"}) = 2

====
